---- MODULE Spec2Model ----
(***************************************************************************)
(* Diabetes Detection API: the request handlers of app/main.py, the        *)
(* DiabetesPredictor of app/predictor.py and the risk helpers of           *)
(* app/utils.py.                                                           *)
(*                                                                         *)
(* Numbers.  A raw model score r in [0,1] is the integer r * ScoreScale,   *)
(* so 0.5 is ScoreSteps and 1 - r is ScoreScale - r.  A percentage p is    *)
(* the integer p * RandSteps; random.random() is u / RandSteps.            *)
(* Optional[T] is a sequence: None is <<>>, a value x is <<x>>.            *)
(***************************************************************************)
EXTENDS Integers, Sequences, FiniteSets, TLC

VARIABLES predictor, phase, request, calls, response

vars == <<predictor, phase, request, calls, response>>

\* ---------------------------------------------------------------- bounds
ScoreSteps == 2
RandSteps == 2

ScoreScale == 2 * ScoreSteps
Scores == 0 .. ScoreScale
RandomDraws == 0 .. RandSteps

\* ------------------------------------------------------------- constants
None == <<>>
Some(x) == <<x>>

ModelRaises == 0 - 1
NoRaise == ""

SAMPLE_K == 3

RENDAH == "rendah"
SEDANG == "sedang"
TINGGI == "tinggi"
RiskLevel == {RENDAH, SEDANG, TINGGI}

LIDAH == "lidah"
KUKU == "kuku"

LIDAH_RISK_FACTORS ==
  << "Tongue coating thickness abnormality",
     "Color changes in tongue surface",
     "Texture pattern irregularities",
     "Surface moisture level changes",
     "Papillae distribution abnormality",
     "Edge scalloping patterns detected" >>

KUKU_RISK_FACTORS ==
  << "Nail discoloration patterns",
     "Texture irregularities detected",
     "Surface changes observed",
     "Yellow nail syndrome indicators",
     "Nail bed color variations",
     "Onycholysis early signs",
     "Paronychia-like inflammation",
     "Brittle nail characteristics",
     "Growth pattern abnormalities" >>

NO_ABNORMALITY_FACTORS ==
  << "No significant abnormalities detected",
     "Normal appearance observed",
     "Healthy indicators present" >>

general_factors ==
  << "Possible early stage indicators",
     "Minor variations from baseline",
     "Requires further monitoring" >>

\* ------------------------------------------------------------- utilities
Take(s, n) == IF Len(s) <= n THEN s ELSE SubSeq(s, 1, n)

\* bytes are modelled by their kind: "" is b"", "corrupt" is a non-empty
\* buffer PIL cannot identify, "image" is a decodable picture.
Bytes == {"", "corrupt", "image"}

\* An UploadFile is modelled by the bytes its read() returns.
UploadFile == Bytes

\* Python truthiness of Optional[UploadFile]: an UploadFile object defines
\* neither __bool__ nor __len__, so only None is falsy.
UploadTruthy(image) == image # None

\* Python truthiness of Optional[bytes]: None and b"" are both falsy.
BytesTruthy(b) == b # None /\ b[1] # ""

\* One entry of the record of calls a request made, in order: a call on a
\* modality (preprocess_image, model.predict) with the exception it raised
\* and the score it returned, or a call of a risk helper with its arguments.
Call(fn, modality, raised, value) ==
  [fn |-> fn, modality |-> modality, raised |-> raised, value |-> value,
   lidah_diabetic |-> FALSE, kuku_diabetic |-> FALSE]

RiskCall(fn, lidah_diabetic, kuku_diabetic) ==
  [fn |-> fn, modality |-> "", raised |-> NoRaise, value |-> 0,
   lidah_diabetic |-> lidah_diabetic, kuku_diabetic |-> kuku_diabetic]

\* ------------------------------------------------------- app/predictor.py
preprocess_image(image_bytes) ==
  IF image_bytes = "image" THEN NoRaise ELSE "DecodeError"

SingleDetectionResult(detection_type, is_diabetic, confidence, label) ==
  [detection_type |-> detection_type, is_diabetic |-> is_diabetic,
   confidence |-> confidence, label |-> label]

\* A scorer's outcome: the exception it raised (NoRaise if none), its
\* result, and the calls it made in order.
Outcome(raised, result, trace) ==
  [raised |-> raised, result |-> result, trace |-> trace]

\* model_out is what self.lidah_model.predict does for the tensor:
\* ModelRaises, or the sigmoid output prediction[0][0].
predict_lidah_le(image_bytes, model_out) ==
  LET pre == preprocess_image(image_bytes)
      preCall == Call("preprocess_image", LIDAH, pre, 0)
      confidence_score == model_out
      is_diabetic == confidence_score <= ScoreSteps
      label == IF is_diabetic THEN "prediabet" ELSE "non_diabet"
      confidence == IF is_diabetic THEN ScoreScale - confidence_score
                    ELSE confidence_score
  IN IF pre # NoRaise
       THEN Outcome(pre, None, <<preCall>>)
       ELSE IF model_out = ModelRaises
         THEN Outcome("InferenceError", None,
                <<preCall, Call("model.predict", LIDAH, "InferenceError", 0)>>)
         ELSE Outcome(NoRaise,
                Some(SingleDetectionResult(LIDAH, is_diabetic, confidence, label)),
                <<preCall, Call("model.predict", LIDAH, NoRaise, confidence_score)>>)

predict_lidah(image_bytes, model_out) ==
  LET pre == preprocess_image(image_bytes)
      preCall == Call("preprocess_image", LIDAH, pre, 0)
      confidence_score == model_out
      is_diabetic == confidence_score < ScoreSteps
      label == IF is_diabetic THEN "prediabet" ELSE "non_diabet"
      confidence == IF is_diabetic THEN ScoreScale - confidence_score
                    ELSE confidence_score
  IN IF pre # NoRaise
       THEN Outcome(pre, None, <<preCall>>)
       ELSE IF model_out = ModelRaises
         THEN Outcome("InferenceError", None,
                <<preCall, Call("model.predict", LIDAH, "InferenceError", 0)>>)
         ELSE Outcome(NoRaise,
                Some(SingleDetectionResult(LIDAH, is_diabetic, confidence, label)),
                <<preCall, Call("model.predict", LIDAH, NoRaise, confidence_score)>>)

predict_kuku_raw_confidence(image_bytes, model_out) ==
  LET pre == preprocess_image(image_bytes)
      preCall == Call("preprocess_image", KUKU, pre, 0)
      confidence_score == model_out
      is_diabetic == confidence_score >= ScoreSteps
      label == IF is_diabetic THEN "prediabet" ELSE "non_diabet"
      confidence == confidence_score
  IN IF pre # NoRaise
       THEN Outcome(pre, None, <<preCall>>)
       ELSE IF model_out = ModelRaises
         THEN Outcome("InferenceError", None,
                <<preCall, Call("model.predict", KUKU, "InferenceError", 0)>>)
         ELSE Outcome(NoRaise,
                Some(SingleDetectionResult(KUKU, is_diabetic, confidence, label)),
                <<preCall, Call("model.predict", KUKU, NoRaise, confidence_score)>>)

predict_kuku(image_bytes, model_out) ==
  LET pre == preprocess_image(image_bytes)
      preCall == Call("preprocess_image", KUKU, pre, 0)
      confidence_score == model_out
      is_diabetic == confidence_score >= ScoreSteps
      label == IF is_diabetic THEN "prediabet" ELSE "non_diabet"
      confidence == IF is_diabetic THEN confidence_score
                    ELSE ScoreScale - confidence_score
  IN IF pre # NoRaise
       THEN Outcome(pre, None, <<preCall>>)
       ELSE IF model_out = ModelRaises
         THEN Outcome("InferenceError", None,
                <<preCall, Call("model.predict", KUKU, "InferenceError", 0)>>)
         ELSE Outcome(NoRaise,
                Some(SingleDetectionResult(KUKU, is_diabetic, confidence, label)),
                <<preCall, Call("model.predict", KUKU, NoRaise, confidence_score)>>)

\* The outcome of predict_both: the exception that escaped it, the two
\* Optional results, and the calls made.
BothOutcome(raised, lidah_result, kuku_result, trace) ==
  [raised |-> raised, lidah_result |-> lidah_result,
   kuku_result |-> kuku_result, trace |-> trace]

\* predict_both as it would be if a scorer's exception were swallowed and
\* the modality reported as None.
predict_both_swallow(lidah_bytes, kuku_bytes, lidah_out, kuku_out) ==
  LET l == IF BytesTruthy(lidah_bytes)
             THEN predict_lidah(lidah_bytes[1], lidah_out)
             ELSE Outcome(NoRaise, None, <<>>)
      k == IF BytesTruthy(kuku_bytes)
             THEN predict_kuku(kuku_bytes[1], kuku_out)
             ELSE Outcome(NoRaise, None, <<>>)
  IN BothOutcome(NoRaise, l.result, k.result, l.trace \o k.trace)

predict_both(lidah_bytes, kuku_bytes, lidah_out, kuku_out) ==
  LET l == IF BytesTruthy(lidah_bytes)
             THEN predict_lidah(lidah_bytes[1], lidah_out)
             ELSE Outcome(NoRaise, None, <<>>)
      k == IF BytesTruthy(kuku_bytes)
             THEN predict_kuku(kuku_bytes[1], kuku_out)
             ELSE Outcome(NoRaise, None, <<>>)
  IN IF l.raised # NoRaise
       THEN BothOutcome(l.raised, None, None, l.trace)
       ELSE IF k.raised # NoRaise
         THEN BothOutcome(k.raised, None, None, l.trace \o k.trace)
         ELSE BothOutcome(NoRaise, l.result, k.result, l.trace \o k.trace)

\* ---------------------------------------------------------- app/utils.py
\* random.sample(population, k) with the k distinct positions it drew.
SamplePicks(n) ==
  { p \in [1 .. SAMPLE_K -> 1 .. n] :
      \A i, j \in 1 .. SAMPLE_K : i # j => p[i] # p[j] }

random_sample(population, pick) ==
  [i \in 1 .. Len(pick) |-> population[pick[i]]]

\* random.uniform(a, b) is a + (b - a) * random.random(); u is the draw.
random_uniform(a, b, u) == a * RandSteps + (b - a) * u

get_risk_factors_sample_two(lidah_diabetic, kuku_diabetic, pick) ==
  LET f1 == IF lidah_diabetic THEN LIDAH_RISK_FACTORS ELSE <<>>
      f2 == IF kuku_diabetic THEN f1 \o KUKU_RISK_FACTORS ELSE f1
      f3 == IF Len(f2) > 3 THEN random_sample(f2, SubSeq(pick, 1, 2))
            ELSE IF Len(f2) < 3
              THEN f2 \o Take(general_factors, 3 - Len(f2))
              ELSE f2
  IN IF f2 = <<>> THEN NO_ABNORMALITY_FACTORS ELSE Take(f3, 3)

get_risk_factors_either_pool(lidah_diabetic, kuku_diabetic, pick) ==
  LET f1 == IF lidah_diabetic \/ kuku_diabetic
              THEN LIDAH_RISK_FACTORS ELSE <<>>
      f2 == IF kuku_diabetic THEN f1 \o KUKU_RISK_FACTORS ELSE f1
      f3 == IF Len(f2) > 3 THEN random_sample(f2, pick)
            ELSE IF Len(f2) < 3
              THEN f2 \o Take(general_factors, 3 - Len(f2))
              ELSE f2
  IN IF f2 = <<>> THEN NO_ABNORMALITY_FACTORS ELSE Take(f3, 3)

\* pick is the outcome of random.sample, used only when it is called.
get_risk_factors(lidah_diabetic, kuku_diabetic, pick) ==
  LET f1 == IF lidah_diabetic THEN LIDAH_RISK_FACTORS ELSE <<>>
      f2 == IF kuku_diabetic THEN f1 \o KUKU_RISK_FACTORS ELSE f1
      f3 == IF Len(f2) > 3 THEN random_sample(f2, pick)
            ELSE IF Len(f2) < 3
              THEN f2 \o Take(general_factors, 3 - Len(f2))
              ELSE f2
  IN IF f2 = <<>> THEN NO_ABNORMALITY_FACTORS ELSE Take(f3, 3)

\* The outcomes random.sample can have inside get_risk_factors.
FactorPicks(lidah_diabetic, kuku_diabetic) ==
  LET n == (IF lidah_diabetic THEN Len(LIDAH_RISK_FACTORS) ELSE 0)
           + (IF kuku_diabetic THEN Len(KUKU_RISK_FACTORS) ELSE 0)
  IN IF n > 3 THEN SamplePicks(n) ELSE {<<1, 2, 3>>}

calculate_risk_level_wide_sedang(lidah_diabetic, kuku_diabetic, u) ==
  IF lidah_diabetic /\ kuku_diabetic
    THEN <<TINGGI, random_uniform(75, 95, u)>>
    ELSE IF lidah_diabetic \/ kuku_diabetic
      THEN <<SEDANG, random_uniform(45, 75, u)>>
      ELSE <<RENDAH, random_uniform(5, 25, u)>>

calculate_risk_level(lidah_diabetic, kuku_diabetic, u) ==
  IF lidah_diabetic /\ kuku_diabetic
    THEN <<TINGGI, random_uniform(75, 95, u)>>
    ELSE IF lidah_diabetic \/ kuku_diabetic
      THEN <<SEDANG, random_uniform(45, 70, u)>>
      ELSE <<RENDAH, random_uniform(5, 25, u)>>

get_recommendation(risk_level) ==
  CASE risk_level = TINGGI -> "High risk detected. We strongly recommend immediate consultation with a healthcare professional for comprehensive diabetes screening and blood glucose testing. Early intervention is crucial for better health outcomes."
    [] risk_level = SEDANG -> "Moderate risk detected. Please schedule a medical check-up within the next few weeks. Consider monitoring your blood sugar levels and maintaining a healthy lifestyle with balanced diet and regular exercise."
    [] risk_level = RENDAH -> "Low risk detected. Continue maintaining a healthy lifestyle with regular exercise, balanced nutrition, and adequate sleep. Regular health check-ups are still recommended for prevention and early detection."
    [] OTHER -> "Please consult with a healthcare professional."

\* ----------------------------------------------------------- app/main.py
HealthCheckResponse(status, message) ==
  [status |-> status, message |-> message]

DiabetesAnalysisResponse(risk_level, risk_percentage, lidah_result, kuku_result, risk_factors_identified, recommendation) ==
  [risk_level |-> risk_level, risk_percentage |-> risk_percentage,
   lidah_result |-> lidah_result, kuku_result |-> kuku_result,
   risk_factors_identified |-> risk_factors_identified,
   recommendation |-> recommendation]

\* What the client receives: the status code, the HTTPException detail
\* and the exception class behind it (NoRaise for a 200), and the body.
Response(status_code, detail, cause, body) ==
  [status_code |-> status_code, detail |-> detail, cause |-> cause,
   body |-> body]

HTTPException(status_code, detail, cause) ==
  Response(status_code, detail, cause, None)

\* What a handler did: its response and the calls it made.
Handled(resp, trace) == [response |-> resp, trace |-> trace]

\* await image.read() if image else None
read_if_given(image) == IF UploadTruthy(image) THEN Some(image[1]) ELSE None

\* not lidah_image and not kuku_image
no_image_given_never(lidah_image, kuku_image) == FALSE

no_image_given(lidah_image, kuku_image) ==
  ~UploadTruthy(lidah_image) /\ ~UploadTruthy(kuku_image)

\* result.is_diabetic if result else False
is_diabetic_or_true(result) ==
  IF result # None THEN result[1].is_diabetic ELSE TRUE

is_diabetic_or_false(result) ==
  IF result # None THEN result[1].is_diabetic ELSE FALSE

\* The part of a predict handler after predict_both returned: risk level,
\* risk factors, recommendation and the response.
Analyse(lidah_diabetic, kuku_diabetic, lidah_result, kuku_result, u, pick, trace) ==
  LET risk == calculate_risk_level(lidah_diabetic, kuku_diabetic, u)
      risk_level == risk[1]
      risk_percentage == risk[2]
      risk_factors == get_risk_factors(lidah_diabetic, kuku_diabetic, pick)
      recommendation == get_recommendation(risk_level)
  IN Handled(
       Response(200, "", NoRaise,
         Some(DiabetesAnalysisResponse(risk_level, risk_percentage,
                lidah_result, kuku_result, risk_factors, recommendation))),
       trace \o << RiskCall("calculate_risk_level", lidah_diabetic, kuku_diabetic),
                   RiskCall("get_risk_factors", lidah_diabetic, kuku_diabetic),
                   RiskCall("get_recommendation", FALSE, FALSE) >>)

root == Handled(
  Response(200, "", NoRaise,
    Some(HealthCheckResponse("healthy", "Diabetes Detection API is running"))),
  <<>>)

health_check ==
  IF predictor = None
    THEN Handled(HTTPException(503, "Models not loaded", "HTTPException"), <<>>)
    ELSE Handled(
      Response(200, "", NoRaise,
        Some(HealthCheckResponse("healthy", "All models loaded and ready"))),
      <<>>)

predict_lidah_only(lidah_image, lidah_out, u, pick) ==
  IF predictor = None
    THEN Handled(HTTPException(503, "Model not loaded", "HTTPException"), <<>>)
    ELSE
      LET lidah_bytes == Some(lidah_image[1])
          both == predict_both(lidah_bytes, None, lidah_out, ModelRaises)
          lidah_result == both.lidah_result
      IN IF both.raised # NoRaise
           THEN Handled(HTTPException(500, "Prediction error", both.raised),
                        both.trace)
           ELSE IF lidah_result = None
             \* lidah_result.is_diabetic on None
             THEN Handled(HTTPException(500, "Prediction error", "AttributeError"),
                          both.trace)
             ELSE Analyse(lidah_result[1].is_diabetic, FALSE,
                          lidah_result, None, u, pick, both.trace)

predict_kuku_only(kuku_image, kuku_out, u, pick) ==
  IF predictor = None
    THEN Handled(HTTPException(503, "Model not loaded", "HTTPException"), <<>>)
    ELSE
      LET kuku_bytes == Some(kuku_image[1])
          both == predict_both(None, kuku_bytes, ModelRaises, kuku_out)
          kuku_result == both.kuku_result
      IN IF both.raised # NoRaise
           THEN Handled(HTTPException(500, "Prediction error", both.raised),
                        both.trace)
           ELSE IF kuku_result = None
             \* kuku_result.is_diabetic on None
             THEN Handled(HTTPException(500, "Prediction error", "AttributeError"),
                          both.trace)
             ELSE Analyse(FALSE, kuku_result[1].is_diabetic,
                          None, kuku_result, u, pick, both.trace)

predict_both_images(lidah_image, kuku_image, lidah_out, kuku_out, u, pick) ==
  IF predictor = None
    THEN Handled(HTTPException(503, "Model not loaded", "HTTPException"), <<>>)
    ELSE
      LET lidah_bytes == Some(lidah_image[1])
          kuku_bytes == Some(kuku_image[1])
          both == predict_both(lidah_bytes, kuku_bytes, lidah_out, kuku_out)
          lidah_result == both.lidah_result
          kuku_result == both.kuku_result
      IN IF both.raised # NoRaise
           THEN Handled(HTTPException(500, "Prediction error", both.raised),
                        both.trace)
           ELSE IF lidah_result = None \/ kuku_result = None
             \* .is_diabetic on None
             THEN Handled(HTTPException(500, "Prediction error", "AttributeError"),
                          both.trace)
             ELSE Analyse(lidah_result[1].is_diabetic,
                          kuku_result[1].is_diabetic,
                          lidah_result, kuku_result, u, pick, both.trace)

predict_flexible(lidah_image, kuku_image, lidah_out, kuku_out, u, pick) ==
  IF predictor = None
    THEN Handled(HTTPException(503, "Model not loaded", "HTTPException"), <<>>)
    ELSE IF no_image_given(lidah_image, kuku_image)
      THEN Handled(
        HTTPException(400, "At least one image (lidah or kuku) must be provided",
                      "HTTPException"), <<>>)
      ELSE
        LET lidah_bytes == read_if_given(lidah_image)
            kuku_bytes == read_if_given(kuku_image)
            both == predict_both(lidah_bytes, kuku_bytes, lidah_out, kuku_out)
            lidah_result == both.lidah_result
            kuku_result == both.kuku_result
        IN IF both.raised # NoRaise
             THEN Handled(HTTPException(500, "Prediction error", both.raised),
                          both.trace)
             ELSE Analyse(is_diabetic_or_false(lidah_result),
                          is_diabetic_or_false(kuku_result),
                          lidah_result, kuku_result, u, pick, both.trace)

\* ---------------------------------------------------------- state machine
\* What a model's predict can do for an upload: it is only invoked on a
\* decodable image, where it raises or returns a sigmoid output.
ModelOutcomes(image) ==
  IF image = Some("image") THEN {ModelRaises} \cup Scores ELSE {ModelRaises}

OptionalUploads == {None} \cup { Some(b) : b \in UploadFile }
GivenUploads == { Some(b) : b \in UploadFile }

Request(endpoint, lidah_image, kuku_image) ==
  [endpoint |-> endpoint, lidah_image |-> lidah_image,
   kuku_image |-> kuku_image]

Serve(endpoint, lidah_image, kuku_image, handled) ==
  /\ request' = Some(Request(endpoint, lidah_image, kuku_image))
  /\ calls' = handled.trace
  /\ response' = Some(handled.response)
  /\ phase' = "responded"
  /\ UNCHANGED predictor

Init ==
  /\ predictor = None
  /\ phase = "starting"
  /\ request = None
  /\ calls = <<>>
  /\ response = None

\* startup_event: DiabetesPredictor() loads both models, or raises and the
\* application does not start.
StartupLoaded ==
  /\ phase = "starting"
  /\ predictor' = Some("DiabetesPredictor")
  /\ phase' = "serving"
  /\ UNCHANGED <<request, calls, response>>

StartupFailed ==
  /\ phase = "starting"
  /\ phase' = "failed"
  /\ UNCHANGED <<predictor, request, calls, response>>

Root ==
  /\ phase = "serving"
  /\ Serve("/", None, None, root)

HealthCheck ==
  /\ phase = "serving"
  /\ Serve("/health", None, None, health_check)

PredictLidahOnly ==
  /\ phase = "serving"
  /\ \E lidah_image \in GivenUploads :
       \E lidah_out \in ModelOutcomes(lidah_image) :
         LET both == predict_both(lidah_image, None, lidah_out, ModelRaises)
             ld == is_diabetic_or_false(both.lidah_result)
         IN \E u \in RandomDraws, pick \in FactorPicks(ld, FALSE) :
              Serve("/predict/lidah", lidah_image, None,
                    predict_lidah_only(lidah_image, lidah_out, u, pick))

PredictKukuOnly ==
  /\ phase = "serving"
  /\ \E kuku_image \in GivenUploads :
       \E kuku_out \in ModelOutcomes(kuku_image) :
         LET both == predict_both(None, kuku_image, ModelRaises, kuku_out)
             kd == is_diabetic_or_false(both.kuku_result)
         IN \E u \in RandomDraws, pick \in FactorPicks(FALSE, kd) :
              Serve("/predict/kuku", None, kuku_image,
                    predict_kuku_only(kuku_image, kuku_out, u, pick))

PredictBoth ==
  /\ phase = "serving"
  /\ \E lidah_image \in GivenUploads, kuku_image \in GivenUploads :
       \E lidah_out \in ModelOutcomes(lidah_image),
          kuku_out \in ModelOutcomes(kuku_image) :
         LET both == predict_both(lidah_image, kuku_image, lidah_out, kuku_out)
             ld == is_diabetic_or_false(both.lidah_result)
             kd == is_diabetic_or_false(both.kuku_result)
         IN \E u \in RandomDraws, pick \in FactorPicks(ld, kd) :
              Serve("/predict/both", lidah_image, kuku_image,
                    predict_both_images(lidah_image, kuku_image,
                                        lidah_out, kuku_out, u, pick))

PredictFlexible ==
  /\ phase = "serving"
  /\ \E lidah_image \in OptionalUploads, kuku_image \in OptionalUploads :
       \E lidah_out \in ModelOutcomes(lidah_image),
          kuku_out \in ModelOutcomes(kuku_image) :
         LET both == predict_both(read_if_given(lidah_image),
                                  read_if_given(kuku_image),
                                  lidah_out, kuku_out)
             ld == is_diabetic_or_false(both.lidah_result)
             kd == is_diabetic_or_false(both.kuku_result)
         IN \E u \in RandomDraws, pick \in FactorPicks(ld, kd) :
              Serve("/predict", lidah_image, kuku_image,
                    predict_flexible(lidah_image, kuku_image,
                                     lidah_out, kuku_out, u, pick))

\* The response is sent; the request's objects are discarded and the
\* server waits for the next request.
SendResponse ==
  /\ phase = "responded"
  /\ phase' = "serving"
  /\ request' = None
  /\ calls' = <<>>
  /\ response' = None
  /\ UNCHANGED predictor

Next ==
  \/ StartupLoaded
  \/ StartupFailed
  \/ Root
  \/ HealthCheck
  \/ PredictLidahOnly
  \/ PredictKukuOnly
  \/ PredictBoth
  \/ PredictFlexible
  \/ SendResponse

Spec == Init /\ [][Next]_vars

TypeOK ==
  /\ phase \in {"starting", "failed", "serving", "responded"}
  /\ (phase = "responded") <=> (response # None)
  /\ (phase = "responded") <=> (request # None)

\* ------------------------------------------------------------ properties
PredictEndpoints == {"/predict", "/predict/lidah", "/predict/kuku", "/predict/both"}

\* A predict endpoint has answered.
Answered == phase = "responded" /\ request[1].endpoint \in PredictEndpoints

\* A predict endpoint has answered with a DiabetesAnalysisResponse.
Analysed == Answered /\ response[1].status_code = 200

Body == response[1].body[1]

CallsOf(fn) == { i \in DOMAIN calls : calls[i].fn = fn }

TheCall(fn) == calls[CHOOSE i \in CallsOf(fn) : TRUE]

Scored(modality) ==
  { i \in DOMAIN calls : /\ calls[i].fn = "model.predict"
                         /\ calls[i].modality = modality
                         /\ calls[i].raised = NoRaise }

RawScore(modality) == calls[CHOOSE i \in Scored(modality) : TRUE].value

InBand(p, lo, hi) == lo * RandSteps <= p /\ p <= hi * RandSteps

\* C1: calculate_risk_level maps (true,true) to tinggi with a percentage in
\* [75,95], (true,false) and (false,true) to sedang in [45,70], and
\* (false,false) to rendah in [5,25], for every draw of the random source.
C1_RiskBands ==
  Analysed =>
    /\ Cardinality(CallsOf("calculate_risk_level")) = 1
    /\ LET c == TheCall("calculate_risk_level")
           level == Body.risk_level
           p == Body.risk_percentage
       IN /\ (c.lidah_diabetic /\ c.kuku_diabetic)
               => (level = "tinggi" /\ InBand(p, 75, 95))
          /\ (c.lidah_diabetic /\ ~c.kuku_diabetic)
               => (level = "sedang" /\ InBand(p, 45, 70))
          /\ (~c.lidah_diabetic /\ c.kuku_diabetic)
               => (level = "sedang" /\ InBand(p, 45, 70))
          /\ (~c.lidah_diabetic /\ ~c.kuku_diabetic)
               => (level = "rendah" /\ InBand(p, 5, 25))

\* Only the nail is positive and the draw reaches the top of the band.
C1_Witness ==
  /\ Analysed
  /\ CallsOf("calculate_risk_level") # {}
  /\ ~TheCall("calculate_risk_level").lidah_diabetic
  /\ TheCall("calculate_risk_level").kuku_diabetic
  /\ Body.risk_level = "sedang"
  /\ Body.risk_percentage = 70 * RandSteps

\* C2: the scorers use opposite polarity on the cutoff 0.5: the tongue is
\* positive ("prediabet") iff r < 0.5, the nail is positive ("prediabet")
\* iff r >= 0.5; at r = 0.5 the tongue is negative and the nail positive.
C2_OppositePolarity ==
  Analysed =>
    /\ Body.lidah_result # None =>
         /\ Scored("lidah") # {}
         /\ LET r == RawScore("lidah")
                v == Body.lidah_result[1]
            IN /\ v.is_diabetic <=> (2 * r < ScoreScale)
               /\ (v.label = "prediabet") <=> (2 * r < ScoreScale)
               /\ (v.label = "non_diabet") <=> (2 * r >= ScoreScale)
    /\ Body.kuku_result # None =>
         /\ Scored("kuku") # {}
         /\ LET r == RawScore("kuku")
                v == Body.kuku_result[1]
            IN /\ v.is_diabetic <=> (2 * r >= ScoreScale)
               /\ (v.label = "prediabet") <=> (2 * r >= ScoreScale)
               /\ (v.label = "non_diabet") <=> (2 * r < ScoreScale)

\* Both models returned exactly 0.5.
C2_Witness ==
  /\ Analysed
  /\ Body.lidah_result # None /\ Body.kuku_result # None
  /\ Scored("lidah") # {} /\ Scored("kuku") # {}
  /\ 2 * RawScore("lidah") = ScoreScale
  /\ 2 * RawScore("kuku") = ScoreScale
  /\ Body.lidah_result[1].label = "non_diabet"
  /\ Body.kuku_result[1].label = "prediabet"

\* C3: in every response of a predict endpoint the tongue verdict is present
\* iff a tongue image was supplied and the nail verdict is present iff a
\* nail image was supplied, a zero-length upload included.
C3_VerdictIffSupplied ==
  Analysed =>
    /\ (Body.lidah_result # None) <=> (request[1].lidah_image # None)
    /\ (Body.kuku_result # None) <=> (request[1].kuku_image # None)

Failed(i) == calls[i].raised # NoRaise

\* C4: a failure of preprocess_image or of the model for a requested
\* modality aborts the request: nothing runs after the failing call, no
\* DiabetesAnalysisResponse is returned, and after a tongue failure no nail
\* step is run.
C4_FailureAborts ==
  Answered =>
    /\ \A i \in DOMAIN calls :
         Failed(i) => /\ i = Len(calls)
                      /\ response[1].status_code # 200
                      /\ response[1].body = None
                      /\ calls[i].modality = "lidah"
                           => \A j \in DOMAIN calls : calls[j].modality # "kuku"
    /\ \A image \in {request[1].lidah_image, request[1].kuku_image} :
         image = Some("corrupt") => response[1].status_code # 200

\* The tongue step failed in a request that also carried a nail image.
C4_Witness ==
  /\ Answered
  /\ request[1].kuku_image = Some("image")
  /\ \E i \in DOMAIN calls : Failed(i) /\ calls[i].modality = "lidah"
  /\ response[1].status_code = 500

ClientError(status_code) == 400 <= status_code /\ status_code <= 499
ServerError(status_code) == 500 <= status_code /\ status_code <= 599

\* C5: a request whose image bytes cannot be decoded ends in a client-input
\* failure, one whose model invocation fails ends in a server failure; the
\* two causes never give the same outcome class.
C5_DistinctErrorOutcomes ==
  Answered =>
    /\ response[1].cause = "DecodeError"
         => ClientError(response[1].status_code)
    /\ response[1].cause = "InferenceError"
         => ServerError(response[1].status_code)

\* C6: /predict with neither image is rejected with HTTP 400 before any
\* preprocessing, scoring, aggregation or factor selection.
C6_NoImageRejected ==
  ( /\ Answered
    /\ request[1].endpoint = "/predict"
    /\ request[1].lidah_image = None
    /\ request[1].kuku_image = None )
  => /\ response[1].status_code = 400
     /\ response[1].body = None
     /\ calls = <<>>

C6_Witness ==
  /\ Answered
  /\ request[1].endpoint = "/predict"
  /\ request[1].lidah_image = None
  /\ request[1].kuku_image = None
  /\ response[1].status_code = 400

\* C7: get_risk_factors returns exactly 3 factors for each of the 4 boolean
\* input combinations and every outcome of the sampling.
C7_ThreeFactors ==
  Analysed =>
    /\ Cardinality(CallsOf("get_risk_factors")) = 1
    /\ DOMAIN Body.risk_factors_identified = 1 .. 3
    /\ Len(Body.risk_factors_identified) = 3

\* Both pools were candidates, so 3 of 15 were sampled.
C7_Witness ==
  /\ Analysed
  /\ CallsOf("get_risk_factors") # {}
  /\ TheCall("get_risk_factors").lidah_diabetic
  /\ TheCall("get_risk_factors").kuku_diabetic
  /\ Len(Body.risk_factors_identified) = 3

TonguePool ==
  { "Tongue coating thickness abnormality", "Color changes in tongue surface",
    "Texture pattern irregularities", "Surface moisture level changes",
    "Papillae distribution abnormality", "Edge scalloping patterns detected" }

NailPool ==
  { "Nail discoloration patterns", "Texture irregularities detected",
    "Surface changes observed", "Yellow nail syndrome indicators",
    "Nail bed color variations", "Onycholysis early signs",
    "Paronychia-like inflammation", "Brittle nail characteristics",
    "Growth pattern abnormalities" }

\* C8: (false,false) returns the fixed all-clear set verbatim; otherwise the
\* 3 factors are pairwise distinct and each comes from the tongue pool (only
\* if the tongue is positive) or the nail pool (only if the nail is
\* positive); no general/monitoring phrase appears.
C8_FactorsFromSelectedPools ==
  Analysed =>
    /\ CallsOf("get_risk_factors") # {}
    /\ LET c == TheCall("get_risk_factors")
           f == Body.risk_factors_identified
           allowed == (IF c.lidah_diabetic THEN TonguePool ELSE {})
                      \cup (IF c.kuku_diabetic THEN NailPool ELSE {})
       IN IF ~c.lidah_diabetic /\ ~c.kuku_diabetic
            THEN f = << "No significant abnormalities detected",
                        "Normal appearance observed",
                        "Healthy indicators present" >>
            ELSE /\ \A i \in DOMAIN f : f[i] \in allowed
                 /\ \A i, j \in DOMAIN f : i # j => f[i] # f[j]

\* Only the tongue is positive: 3 of the 6 tongue phrases.
C8_Witness ==
  /\ Analysed
  /\ CallsOf("get_risk_factors") # {}
  /\ TheCall("get_risk_factors").lidah_diabetic
  /\ ~TheCall("get_risk_factors").kuku_diabetic
  /\ Len(Body.risk_factors_identified) = 3
  /\ \A i \in DOMAIN Body.risk_factors_identified :
       Body.risk_factors_identified[i] \in TonguePool

TierRank(level) ==
  CASE level = "rendah" -> 1 [] level = "sedang" -> 2 [] level = "tinggi" -> 3

\* The tier of two verdicts, by the rule of the Risk Aggregator.
TierOf(tongue_positive, nail_positive) ==
  IF tongue_positive /\ nail_positive THEN "tinggi"
  ELSE IF tongue_positive \/ nail_positive THEN "sedang" ELSE "rendah"

\* C9: an absent modality is passed to calculate_risk_level and
\* get_risk_factors as negative, so the tier is never higher than with that
\* modality present, whatever its verdict, and a request with only one image
\* never yields tinggi.
C9_MissingImageNeverRaisesRisk ==
  Analysed =>
    /\ CallsOf("calculate_risk_level") # {} /\ CallsOf("get_risk_factors") # {}
    /\ LET a == TheCall("calculate_risk_level")
           s == TheCall("get_risk_factors")
           level == Body.risk_level
       IN /\ request[1].lidah_image = None =>
               /\ ~a.lidah_diabetic /\ ~s.lidah_diabetic
               /\ \A v \in BOOLEAN :
                    TierRank(level) <= TierRank(TierOf(v, a.kuku_diabetic))
          /\ request[1].kuku_image = None =>
               /\ ~a.kuku_diabetic /\ ~s.kuku_diabetic
               /\ \A v \in BOOLEAN :
                    TierRank(level) <= TierRank(TierOf(a.lidah_diabetic, v))
          /\ (request[1].lidah_image = None \/ request[1].kuku_image = None)
               => level # "tinggi"

\* /predict with only a nail image, and the nail is positive.
C9_Witness ==
  /\ Analysed
  /\ request[1].endpoint = "/predict"
  /\ request[1].lidah_image = None
  /\ Body.kuku_result # None
  /\ Body.kuku_result[1].is_diabetic
  /\ Body.risk_level = "sedang"

\* C10: for every raw score r in [0,1] both scorers report a confidence in
\* [0,1] and a label in {"prediabet","non_diabet"}; the tongue reports 1 - r
\* when positive and r otherwise, the nail r when positive and 1 - r
\* otherwise.
C10_ConfidenceOfWinningClass ==
  Analysed =>
    /\ Body.lidah_result # None =>
         /\ Scored("lidah") # {}
         /\ LET r == RawScore("lidah")
                v == Body.lidah_result[1]
            IN /\ 0 <= v.confidence /\ v.confidence <= ScoreScale
               /\ v.label \in {"prediabet", "non_diabet"}
               /\ v.confidence = IF v.is_diabetic THEN ScoreScale - r ELSE r
    /\ Body.kuku_result # None =>
         /\ Scored("kuku") # {}
         /\ LET r == RawScore("kuku")
                v == Body.kuku_result[1]
            IN /\ 0 <= v.confidence /\ v.confidence <= ScoreScale
               /\ v.label \in {"prediabet", "non_diabet"}
               /\ v.confidence = IF v.is_diabetic THEN r ELSE ScoreScale - r

\* A positive tongue and a negative nail, both with raw score 0.5 - 1 step.
C10_Witness ==
  /\ Analysed
  /\ Body.lidah_result # None /\ Body.kuku_result # None
  /\ Scored("lidah") # {} /\ Scored("kuku") # {}
  /\ RawScore("lidah") = ScoreSteps - 1
  /\ RawScore("kuku") = ScoreSteps - 1
  /\ Body.lidah_result[1].is_diabetic
  /\ ~Body.kuku_result[1].is_diabetic
  /\ Body.lidah_result[1].confidence = ScoreSteps + 1
  /\ Body.kuku_result[1].confidence = ScoreSteps + 1

\* What the model of a modality did in the answered request: the score it
\* returned, or ModelRaises when it raised or was never invoked.
ObservedOutcome(modality) ==
  IF Scored(modality) # {} THEN RawScore(modality) ELSE ModelRaises

\* The response /predict gives to the answered request's uploads under the
\* same model outcomes (the random draws touch neither tier nor verdicts).
FlexibleResponse ==
  predict_flexible(request[1].lidah_image, request[1].kuku_image,
                   ObservedOutcome("lidah"), ObservedOutcome("kuku"),
                   0, <<1, 2, 3>>).response

OutcomeClass(status_code) == IF status_code = 200 THEN "success" ELSE "error"

\* C11: /predict/lidah and /predict with only that tongue image end in the
\* same outcome class and, on success, in the same tier, verdict presence
\* and verdict content, for every upload (a zero-length one included) and
\* every model outcome; likewise /predict/kuku and /predict with only the
\* nail image.
C11_SingleEqualsFlexible ==
  (Answered /\ request[1].endpoint \in {"/predict/lidah", "/predict/kuku"})
  => /\ OutcomeClass(response[1].status_code)
          = OutcomeClass(FlexibleResponse.status_code)
     /\ response[1].status_code = 200 =>
          /\ Body.risk_level = FlexibleResponse.body[1].risk_level
          /\ Body.lidah_result = FlexibleResponse.body[1].lidah_result
          /\ Body.kuku_result = FlexibleResponse.body[1].kuku_result

====
